---- MODULE Spec2Model ----
(***************************************************************************)
(* A model of the news-to-video pipeline: main.py drives the per-segment   *)
(* renderer (audio_gen.py, visual_gen.py) and the assembler                *)
(* (video_editor.py), and marks the article in the fetcher's processed-id   *)
(* list (news_fetcher.py).                                                   *)
(*                                                                           *)
(* Texts are sequences of tokens: a token is a word of letters, one         *)
(* separator or bracket character, a blank, or an ellipsis.  Two word       *)
(* tokens next to each other read as one longer word, as the characters     *)
(* would.  Times are counted in frames of the output (24 per second).       *)
(* video_editor.py repeats the line `else:` at lines 58-59; the model reads *)
(* the two lines as the one else branch of the background choice.           *)
(*                                                                           *)
(* Spec is one run of main.py.  The other specifications exercise one       *)
(* component on its own while main.py is idle: SanitizeSpec applies          *)
(* _sanitize_for_tts again and again, DedupSpec drives a DedupManager and    *)
(* its file over the days, ScriptSpec is one call of                         *)
(* pick_and_generate_script (ScriptLiveSpec: the call kept going),           *)
(* AdapterSpec is one ScriptGenerator called again and again, AssembleSpec   *)
(* is one call of assemble_video on any list of artifacts and background,    *)
(* OverlaySpec is one call of generate_overlay, RunsSpec is main.py run      *)
(* after run over the same processed_ids.txt.                                *)
(***************************************************************************)
EXTENDS Integers, Sequences, FiniteSets, TLC

\* ------------------------------------------------------------------ text

Words == {"Voice", "voice", "Name", "name", "Narrator", "Inner", "Engineer",
          "hello", "world", "pause", "URGENT", "happy"}

Openers == {"(", "[", "{"}

Closers == {")", "]", "}"}

IsWord(t) == t \in Words

IsSpace(t) == t = " "

\* str.lower() on one word token (re.IGNORECASE compares case-folded)
Lower(t) ==
  CASE t \in {"Voice", "voice"} -> "voice"
    [] t \in {"Name", "name"} -> "name"
    [] t = "Narrator" -> "narrator"
    [] t = "Inner" -> "inner"
    [] t = "Engineer" -> "engineer"
    [] t = "URGENT" -> "urgent"
    [] OTHER -> t

\* number of characters of a token
CharLen(t) == IF t = "..." THEN 3 ELSE IF IsWord(t) THEN Len(t) ELSE 1

Drop(s, n) == SubSeq(s, n + 1, Len(s))

StartsWith(s, p) == Len(p) <= Len(s) /\ SubSeq(s, 1, Len(p)) = p

\* str.replace(pat, rep): leftmost, non-overlapping, every occurrence
RECURSIVE ReplaceAll(_, _, _)
ReplaceAll(s, pat, rep) ==
  IF s = <<>> THEN <<>>
  ELSE IF StartsWith(s, pat) THEN rep \o ReplaceAll(Drop(s, Len(pat)), pat, rep)
  ELSE <<Head(s)>> \o ReplaceAll(Tail(s), pat, rep)

RECURSIVE LStrip(_)
LStrip(s) == IF s # <<>> /\ IsSpace(Head(s)) THEN LStrip(Tail(s)) ELSE s

RECURSIVE RStrip(_)
RStrip(s) ==
  IF s # <<>> /\ IsSpace(s[Len(s)]) THEN RStrip(SubSeq(s, 1, Len(s) - 1)) ELSE s

\* str.strip()
Strip(s) == RStrip(LStrip(s))

\* first index >= i that holds no word token (Len(s) + 1 when there is none)
RECURSIVE WordRunEnd(_, _)
WordRunEnd(s, i) == IF i <= Len(s) /\ IsWord(s[i]) THEN WordRunEnd(s, i + 1) ELSE i

\* first index >= i that holds no blank: the end of a \s* run
RECURSIVE SpaceRunEnd(_, _)
SpaceRunEnd(s, i) == IF i <= Len(s) /\ IsSpace(s[i]) THEN SpaceRunEnd(s, i + 1) ELSE i

\* \b before index i
BoundaryBefore(s, i) == i = 1 \/ ~IsWord(s[i - 1])

\* \b after index i
BoundaryAfter(s, i) == i = Len(s) \/ ~IsWord(s[i + 1])

\* \s*[:=\-]?\s* from index i: the first index after the match
SepRunEnd(s, i) ==
  LET j == SpaceRunEnd(s, i)
  IN IF j <= Len(s) /\ s[j] \in {":", "=", "-"} THEN SpaceRunEnd(s, j + 1) ELSE j

\* --------------------------------------------- audio_gen.py: sanitizer

\* exact_patterns, in the list's order, as far as the token alphabet spells them
ExactPatterns ==
  << <<"Voice", " ", "name", " ", "=", " ", "Inner", " ", "Engineer">>,
     <<"voice", " ", "name", " ", "=", " ", "Inner", " ", "Engineer">>,
     <<"Voice", " ", "Name", " ", "=", " ", "Inner", " ", "Engineer">>,
     <<"Voice", " ", "name", " ", "=">>, <<"voice", " ", "name", " ", "=">>,
     <<"Voice", " ", "Name", " ", "=">>, <<"voice", " ", "Name", " ", "=">>,
     <<"Voice", " ", "name", "=">>, <<"voice", " ", "name", "=">>,
     <<"Voice", " ", "=">>, <<"voice", " ", "=">>,
     <<"Voice", "=">>, <<"voice", "=">>, <<"Voice", ":">>, <<"voice", ":">>,
     <<"Voice", " ", "-">>, <<"voice", " ", "-">>,
     <<"Name", " ", "=">>, <<"name", " ", "=">>, <<"Name", "=">>, <<"name", "=">>,
     <<"Name", ":">>, <<"name", ":">>,
     <<"Inner", " ", "Engineer">>,
     <<"Narrator", ":">>, <<"Narrator", " ", "=">> >>

\* STEP 0: for pattern in exact_patterns: clean = clean.replace(pattern, "")
RECURSIVE RemoveExact(_, _)
RemoveExact(s, k) ==
  IF k > Len(ExactPatterns) THEN s
  ELSE RemoveExact(ReplaceAll(s, ExactPatterns[k], <<>>), k + 1)

\* ^([A-Za-z]+\s+){0,5}[A-Za-z]+\s*[:=]\s* matched at index i with n words
\* already taken: the first index after the match, 0 when there is no match
RECURSIVE LabelMatchEnd(_, _, _)
LabelMatchEnd(s, i, n) ==
  IF i > Len(s) \/ ~IsWord(s[i]) \/ n >= 6 THEN 0
  ELSE LET j == WordRunEnd(s, i)
           k == SpaceRunEnd(s, j)
       IN IF k <= Len(s) /\ s[k] \in {":", "="} THEN SpaceRunEnd(s, k + 1)
          ELSE IF k > j THEN LabelMatchEnd(s, k, n + 1)
          ELSE 0

\* STEP 1: re.sub(r'^([A-Za-z]+\s+){0,5}[A-Za-z]+\s*[:=]\s*', '', clean.strip())
RemoveLeadingLabel(s) ==
  LET t == Strip(s)
      e == LabelMatchEnd(t, 1, 0)
  IN IF e = 0 THEN t ELSE Drop(t, e - 1)

KeywordsAnywhere == {"voice", "narrator", "speaker", "audio", "vo", "voiceover", "name"}

\* \b(Voice|...|Name|Inner\s+Engineer)\s*[:=\-]?\s* at index i (IGNORECASE):
\* the first index after the match, 0 when there is no match
KeywordMatchEnd(s, i) ==
  IF ~(IsWord(s[i]) /\ BoundaryBefore(s, i)) THEN 0
  ELSE IF Lower(s[i]) \in KeywordsAnywhere THEN SepRunEnd(s, i + 1)
  ELSE LET j == SpaceRunEnd(s, i + 1)
       IN IF Lower(s[i]) = "inner" /\ j > i + 1 /\ j <= Len(s) /\ Lower(s[j]) = "engineer"
          THEN SepRunEnd(s, j + 1)
          ELSE 0

\* STEP 2: re.sub of the keyword pattern, every match from left to right
RECURSIVE RemoveKeywords(_, _)
RemoveKeywords(s, i) ==
  IF i > Len(s) THEN <<>>
  ELSE LET e == KeywordMatchEnd(s, i)
       IN IF e > 0 THEN RemoveKeywords(s, e) ELSE <<s[i]>> \o RemoveKeywords(s, i + 1)

\* re.sub(r'\bW\b', '', clean, flags=re.IGNORECASE) for one word W
RECURSIVE RemoveWord(_, _, _)
RemoveWord(s, w, i) ==
  IF i > Len(s) THEN <<>>
  ELSE IF Lower(s[i]) = w /\ BoundaryBefore(s, i) /\ BoundaryAfter(s, i)
       THEN RemoveWord(s, w, i + 1)
       ELSE <<s[i]>> \o RemoveWord(s, w, i + 1)

\* re.sub(r'\bInner\s*Engineer\b', '', clean, flags=re.IGNORECASE)
RECURSIVE RemoveInnerEngineer(_, _)
RemoveInnerEngineer(s, i) ==
  IF i > Len(s) THEN <<>>
  ELSE LET j == SpaceRunEnd(s, i + 1)
       IN IF /\ Lower(s[i]) = "inner" /\ BoundaryBefore(s, i)
             /\ j <= Len(s) /\ Lower(s[j]) = "engineer" /\ BoundaryAfter(s, j)
          THEN RemoveInnerEngineer(s, j + 1)
          ELSE <<s[i]>> \o RemoveInnerEngineer(s, i + 1)

\* STEP 3
RemoveStandalone(s) ==
  RemoveInnerEngineer(RemoveWord(RemoveWord(s, "voice", 1), "name", 1), 1)

\* index of the first closing bracket at or after i, 0 when there is none
RECURSIVE FirstCloser(_, _)
FirstCloser(s, i) ==
  IF i > Len(s) THEN 0 ELSE IF s[i] \in Closers THEN i ELSE FirstCloser(s, i + 1)

\* characters of s[i..j]
RECURSIVE CharCount(_, _, _)
CharCount(s, i, j) == IF i > j THEN 0 ELSE CharLen(s[i]) + CharCount(s, i + 1, j)

TagMaxChars == 30

\* STEP 4: re.sub(r'[\(\[\{][^\)\]\}]{0,30}[\)\]\}]', '', clean)
RECURSIVE RemoveTags(_, _)
RemoveTags(s, i) ==
  IF i > Len(s) THEN <<>>
  ELSE LET c == FirstCloser(s, i + 1)
       IN IF s[i] \in Openers /\ c > 0 /\ CharCount(s, i + 1, c - 1) <= TagMaxChars
          THEN RemoveTags(s, c + 1)
          ELSE <<s[i]>> \o RemoveTags(s, i + 1)

\* STEP 5: re.sub(r'^[\s:=\-]+', '', clean)
RECURSIVE RemoveLeadingSeparators(_)
RemoveLeadingSeparators(s) ==
  IF s # <<>> /\ Head(s) \in {" ", ":", "=", "-"}
  THEN RemoveLeadingSeparators(Tail(s)) ELSE s

\* re.sub(r'\s+', ' ', clean)
RECURSIVE CollapseSpaces(_)
CollapseSpaces(s) ==
  IF s = <<>> THEN <<>>
  ELSE IF IsSpace(Head(s)) THEN <<" ">> \o CollapseSpaces(LStrip(s))
  ELSE <<Head(s)>> \o CollapseSpaces(Tail(s))

\* STEP 6
NormalizeSpaces(s) == Strip(CollapseSpaces(s))

\* AudioGenerator._sanitize_for_tts
SanitizeForTts(text) ==
  IF text = <<>> THEN <<>>
  ELSE NormalizeSpaces(RemoveLeadingSeparators(RemoveTags(RemoveStandalone(
         RemoveKeywords(RemoveLeadingLabel(RemoveExact(text, 1)), 1)), 1)))

\* ---------------------------------- main.py: cleaning of the spoken text

MainPrefixes == {"voice", "narrator", "speaker", "audio"}

\* re.sub(r'^(Voice|Narrator|Speaker|Audio)\s*[:=\-]?\s*', '', clean_text, IGNORECASE)
RemoveMainPrefix(s) ==
  IF s # <<>> /\ IsWord(s[1]) /\ Lower(s[1]) \in MainPrefixes
  THEN Drop(s, SepRunEnd(s, 2) - 1) ELSE s

\* main.py lines 81-83
MainClean(script_text) ==
  ReplaceAll(ReplaceAll(RemoveMainPrefix(Strip(script_text)),
                        <<"[", "pause", "]">>, <<"...">>),
             <<"[", "URGENT", "]">>, <<>>)

\* ------------------------------------------------------------ bounds

\* a script has at most this many segments
MaxSegments == 3

\* audio durations an engine can produce, in frames
ShortAudio == 6

LongAudio == 36

\* size in bytes of a file with real content
BigFile == 5000

\* the texts handed to the sanitizer on its own have at most this many tokens
MaxTextLen == 5

\* the sanitizer is applied at most this many times in a row
MaxPasses == 3

\* the clock of the dedup store runs up to this day
MaxClock == 9

\* an article's text has at most this many words
MaxWords == 5

\* main.py is run at most this many times
MaxRuns == 4

\* the lengths of a short and of an overlong word
ShortWord == 60

LongWord == 151

\* a background video shorter than every narration, and one longer
ShortVideo == 3

LongVideo == 200

\* the requests one ScriptGenerator is followed for
MaxCalls == 6

\* the tokens of a headline handed to generate_overlay
MaxOverlayLen == 3

\* ------------------------------------------------- program constants

\* write_videofile(fps=24)
FPS == 24

\* crossfadein(0.5) and padding=-0.5, in frames at 24 fps
CrossfadeFrames == 12

\* seg_duration = 5 (seconds) when the audio file is missing, in frames
DefaultSegFrames == 120

\* os.path.getsize(output_path) > 1000
EdgeMinBytes == 1000

\* valid_items[:5]
PoolSize == 5

\* self.ttl_days = 7
TtlDays == 7

\* if current_len + len(word) > 150
SegmentChars == 150

\* segments[:5]
MaxBackupSegments == 5

\* max_retries = 3
MaxRetries == 3

\* base_delay, script_gen.py line 175
BaseDelay == 10

\* ------------------------------------------------------------ inputs

\* article ids (the entry links), as token sequences
ArticleIds == { <<"u1">>, <<"u2">> }

\* no article chosen yet
NoArticle == <<>>

\* the "script" fields a script segment can carry
SampleTexts ==
  { <<"hello", " ", "world">>,
    <<>>,
    <<" ", "Voice", ":", " ", "hello">>,
    <<"Name", " ", "=">>,
    <<"hello", " ", "[", "pause", "]", " ", "world">>,
    <<"[", "URGENT", "]", " ", "(", "happy", ")">> }

None == "None"

\* what a speech engine can leave at the output path: [size, dur]; a file of
\* no bytes holds no audio, a short one is no larger than Edge's threshold
AudioWrites ==
  { [size |-> 0, dur |-> 0],
    [size |-> EdgeMinBytes, dur |-> ShortAudio],
    [size |-> BigFile, dur |-> LongAudio] }

\* no file at a path
NoFile == [size |-> -1, dur |-> 0]

\* an engine attempt leaves a file, or raises and leaves none
EngineOutcomes == {NoFile} \cup AudioWrites

\* sizes of a captured overlay image
ImageSizes == {0, BigFile}

\* the order in which the feeds list the articles
FeedOrder == << <<"u1">>, <<"u2">> >>

\* the output frame, video_editor.py lines 57, 75, 82 and 93
OutW == 1080

OutH == 1920

\* the frame sizes of a background file: the output's, a landscape one, one
\* narrower than the output's aspect
FrameSizes == { <<OutW, OutH>>, <<OutH, OutW>>, <<OutW, 2400>> }

\* lengths of a background video, in frames
BgVideoFrames == {ShortVideo, LongAudio, LongVideo}

\* no file, or one no frame can be read from
NoBgFile == [w |-> 0, h |-> 0, frames |-> 0]

\* what assemble_video can be handed as bg_path and bg_type, with what the
\* file holds: no path, an image, an image the Ken Burns filter raises on
\* ("static"), a file that cannot be read, a video
BackgroundInputs ==
  { [path |-> None, kind |-> k, file |-> NoBgFile] : k \in {"image", "video"} }
    \cup { [path |-> "image", kind |-> "image",
            file |-> [w |-> OutH, h |-> OutW, frames |-> 1]] }
    \cup { [path |-> "static", kind |-> "image",
            file |-> [w |-> s[1], h |-> s[2], frames |-> 1]] : s \in FrameSizes }
    \cup { [path |-> "corrupt", kind |-> "image", file |-> NoBgFile] }
    \cup { [path |-> "video", kind |-> "video",
            file |-> [w |-> s[1], h |-> s[2], frames |-> n]] :
            s \in FrameSizes, n \in BgVideoFrames }

SeqMin(a, b) == IF a < b THEN a ELSE b

SeqMax(a, b) == IF a > b THEN a ELSE b

\* ------------------------------------------------------------- state

VARIABLES
  pc,                  \* where main is
  status,              \* the final status line main printed, "" while running
  exit_code,           \* the process's exit code, -1 while running
  elevenlabs_api_key,  \* AudioGenerator.elevenlabs_api_key is set
  processed_ids,       \* NewsFetcher.processed_ids (and processed_ids.txt)
  news_items,          \* what fetch_fresh_news returned
  article,             \* result["chosen_article"]["article_id"]
  nseg,                \* len(segments)
  idx,                 \* the loop index of main, from 1
  tts,                 \* the last generate_audio call: input, engine calls, result
  full_img_path,       \* generate_overlay's return value: the slide's idx, 0 for None
  audio_files,         \* generated/segment_<id>_<idx>.mp3 of the returned paths, by idx
  img_files,           \* generated/slide_<idx>.png, by idx: its size, -1 for no file
  final_segments,      \* main's list of segment artifacts
  bg_path,             \* get_background_video's path
  bg_type,             \* get_background_video's kind
  bg_file,             \* the frames the file at bg_path holds: [w, h, frames]
  asm_stage,           \* where assemble_video is
  asm_i,               \* its loop index, from 1
  clips,               \* its list of segment clips
  audio_clips,         \* its list of audio clips
  final_video,         \* the concatenated video timeline
  final_audio,         \* the concatenated audio track
  out_file,            \* the file at output_path: "none", "partial" or "complete"
  final_path           \* assemble_video's return value

\* the sanitizer applied on its own: _sanitize_for_tts(text), then again on
\* what it returned
VARIABLES
  original,            \* the text first handed to _sanitize_for_tts
  clean,               \* what the latest call returned
  prev_clean,          \* what the call before it returned
  passes               \* the number of calls so far

sanVars == << original, clean, prev_clean, passes >>

SanIdle == original = <<>> /\ clean = <<>> /\ prev_clean = <<>> /\ passes = 0

\* DedupManager (dedup_manager.py) and its file processed_articles.json
VARIABLES
  db_file,             \* the "hashes" object of the file: fingerprint -> timestamp
  data,                \* self.data["hashes"] of the manager in use
  current_time,        \* time.time(), in days
  loaded_at,           \* when the manager in use was constructed
  last_op              \* the latest call on the manager: op, title, result, the
                       \* title marked by the call right before it, the day

dedupVars == << db_file, data, current_time, loaded_at, last_op >>

\* the call before was not mark_processed
NotMarked == <<"-">>

NoOp == [op |-> "none", title |-> <<>>, result |-> FALSE, marked |-> NotMarked, at |-> 0]

DedupIdle ==
  /\ db_file = <<>>
  /\ data = <<>>
  /\ current_time = 0
  /\ loaded_at = 0
  /\ last_op = NoOp

\* ScriptGenerator.pick_and_generate_script (script_gen.py) called on its own
VARIABLES
  articles,            \* the pool handed to pick_and_generate_script
  api_key,             \* whether GEMINI_API_KEY is set
  bs4,                 \* whether BeautifulSoup can be imported
  script_pc,           \* where the call stands
  attempt,             \* the attempt of the retry loop, from 0
  result,              \* what the call returned
  gemini_disabled,     \* self.gemini_disabled
  net_calls,           \* the requests.get and requests.post calls made so far
  waits,               \* the seconds slept before each attempt of the call
  last_response,       \* the status of the latest answer of the provider
  op                   \* the method of the ScriptGenerator called last

scriptVars ==
  << articles, api_key, bs4, script_pc, attempt, result, gemini_disabled, net_calls,
     waits, last_response, op >>

\* what a call in progress leaves alone
callVars == << articles, api_key, bs4, gemini_disabled, op >>

NoResult == [returned |-> FALSE, chosen |-> 0, via |-> "", segments |-> <<>>]

\* no request was answered yet
NoResponse == [to |-> "", status |-> ""]

ScriptIdle ==
  /\ articles = <<>>
  /\ api_key = FALSE
  /\ bs4 = FALSE
  /\ script_pc = "idle"
  /\ attempt = 0
  /\ result = NoResult
  /\ gemini_disabled = FALSE
  /\ net_calls = 0
  /\ waits = <<>>
  /\ last_response = NoResponse
  /\ op = ""

\* main.py run again and again over the same processed_ids.txt
VARIABLES
  processed_ids_file,  \* the lines of processed_ids.txt
  selection_pool,      \* the pool the run in progress handed to the script provider
  produced,            \* the articles earlier runs produced a video for
  run_no,              \* the number of runs started
  run_exit             \* the exit code of the latest run that ended (-1: none yet)

runsVars == << processed_ids_file, selection_pool, produced, run_no, run_exit >>

RunsIdle ==
  /\ processed_ids_file = {}
  /\ selection_pool = <<>>
  /\ produced = {}
  /\ run_no = 0
  /\ run_exit = -1

\* VisualGenerator.generate_overlay (visual_gen.py) called on its own
VARIABLES
  overlay_pc,          \* where the call stands
  overlay_text,        \* the headline and summary_text handed in
  page,                \* the content of the label, headline and summary elements
  screenshot           \* what page.screenshot captured of them

overlayVars == << overlay_pc, overlay_text, page, screenshot >>

NoPage == [label |-> <<>>, headline |-> <<>>, summary |-> <<>>]

OverlayIdle ==
  /\ overlay_pc = "idle"
  /\ overlay_text = [headline |-> <<>>, summary |-> <<>>]
  /\ page = NoPage
  /\ screenshot = NoPage

\* the state of the components that main.py does not run
libVars == << sanVars, dedupVars, scriptVars, runsVars, overlayVars >>

LibIdle == SanIdle /\ DedupIdle /\ ScriptIdle /\ RunsIdle /\ OverlayIdle

mainVars ==
  << pc, status, exit_code, elevenlabs_api_key, processed_ids, news_items, article,
     nseg, idx, tts, full_img_path, audio_files, img_files, final_segments, bg_path,
     bg_type, bg_file, asm_stage, asm_i, clips, audio_clips, final_video, final_audio,
     out_file, final_path >>

vars == << mainVars, libVars >>

runVars == << elevenlabs_api_key, processed_ids, news_items, article, nseg >>

renderVars == << idx, tts, full_img_path, audio_files, img_files, final_segments >>

asmVars ==
  << bg_path, bg_type, bg_file, asm_stage, asm_i, clips, audio_clips, final_video,
     final_audio, out_file, final_path >>

NoCall ==
  [input |-> <<>>, calls |-> <<>>, failed |-> <<>>, sent |-> <<>>, ssml |-> <<>>,
   result |-> None]

NoTimeline == [starts |-> <<>>, duration |-> 0]

SegmentIndexes == 1..MaxSegments

\* NewsFetcher.__init__, AudioGenerator.__init__, VisualGenerator.__init__ (which
\* wipes generated/), VideoEditor.__init__
Init ==
  /\ pc = "fetch"
  /\ status = ""
  /\ exit_code = -1
  /\ elevenlabs_api_key \in BOOLEAN
  /\ processed_ids \in SUBSET ArticleIds
  /\ news_items = <<>>
  /\ article = NoArticle
  /\ nseg = 0
  /\ idx = 1
  /\ tts = NoCall
  /\ full_img_path = 0
  /\ audio_files = [i \in SegmentIndexes |-> NoFile]
  /\ img_files = [i \in SegmentIndexes |-> -1]
  /\ final_segments = <<>>
  /\ bg_path = None
  /\ bg_type = None
  /\ bg_file = NoBgFile
  /\ asm_stage = "idle"
  /\ asm_i = 1
  /\ clips = <<>>
  /\ audio_clips = <<>>
  /\ final_video = NoTimeline
  /\ final_audio = NoTimeline
  /\ out_file = "none"
  /\ final_path = None
  /\ LibIdle

\* main.py is not running: a component is exercised on its own
MainIdle ==
  /\ pc = "lib"
  /\ status = ""
  /\ exit_code = -1
  /\ elevenlabs_api_key = FALSE
  /\ processed_ids = {}
  /\ news_items = <<>>
  /\ article = NoArticle
  /\ nseg = 0
  /\ idx = 1
  /\ tts = NoCall
  /\ full_img_path = 0
  /\ audio_files = [i \in SegmentIndexes |-> NoFile]
  /\ img_files = [i \in SegmentIndexes |-> -1]
  /\ final_segments = <<>>
  /\ bg_path = None
  /\ bg_type = None
  /\ bg_file = NoBgFile
  /\ asm_stage = "idle"
  /\ asm_i = 1
  /\ clips = <<>>
  /\ audio_clips = <<>>
  /\ final_video = NoTimeline
  /\ final_audio = NoTimeline
  /\ out_file = "none"
  /\ final_path = None

\* ------------------------------------------------------ main: fetching

\* _fetch_rss_sources: the entries the feeds carry, in feed order; entries whose
\* link is in processed_ids are left out
FreshLists ==
  { SelectSeq(FeedOrder, LAMBDA a : a \in S /\ a \notin processed_ids) : S \in SUBSET ArticleIds }

\* valid_items[:5] if len(valid_items) >= 5 else valid_items
SelectionPool(items) == SubSeq(items, 1, SeqMin(PoolSize, Len(items)))

\* main lines 27-34 and 39-44: the run ends there with no article
FetchNothing ==
  /\ pc = "fetch"
  /\ news_items' = <<>>
  /\ pc' = "done"
  /\ status' = "no new news"
  /\ exit_code' = 0
  /\ UNCHANGED << elevenlabs_api_key, processed_ids, article, nseg >>
  /\ UNCHANGED renderVars
  /\ UNCHANGED asmVars
  /\ UNCHANGED libVars

\* main lines 27-44 with articles
FetchNews ==
  /\ pc = "fetch"
  /\ \E items \in FreshLists \ {<<>>} : news_items' = SelectionPool(items)
  /\ pc' = "script"
  /\ UNCHANGED << status, exit_code, elevenlabs_api_key, processed_ids, article, nseg >>
  /\ UNCHANGED renderVars
  /\ UNCHANGED asmVars
  /\ UNCHANGED libVars

\* script_gen.py lines 195-197: a chosen_index outside the pool counts as 0
ChosenIdx(chosen_index, pool) ==
  IF chosen_index < 0 \/ chosen_index >= Len(pool) THEN 0 ELSE chosen_index

\* main lines 48-67: pick_and_generate_script returns the article of the pool
\* the provider's chosen_index names (the backup script comes with the first
\* one) and a script; the provider's answer may carry no segments
PickAndGenerateScript ==
  /\ pc = "script"
  /\ \E chosen_index \in {-1, 0, 1, 2}, n \in 0..MaxSegments :
       /\ article' = news_items[ChosenIdx(chosen_index, news_items) + 1]
       /\ nseg' = n
       /\ IF n = 0
          THEN pc' = "done" /\ status' = "no segments in script" /\ exit_code' = 0
          ELSE pc' = "audio" /\ UNCHANGED << status, exit_code >>
  /\ UNCHANGED << elevenlabs_api_key, processed_ids, news_items >>
  /\ UNCHANGED renderVars
  /\ UNCHANGED asmVars
  /\ UNCHANGED libVars

\* ----------------------------------------- audio_gen.py: generate_audio

\* the emptiness test left out: every text goes on to the engines
EmptyNever(text) == FALSE

\* if not text.strip()
EmptyAfterSanitize(text) == Strip(text) = <<>>

\* os.path.exists(output_path) and os.path.getsize(output_path) > 1000
EdgeAccepts(f) == f # NoFile /\ f.size > EdgeMinBytes

\* the file at the output path after an attempt that found prev there
Left(prev, o) == IF o = NoFile THEN prev ELSE o

\* esc(s) of _to_ssml, one character at a time ("&" is replaced first, so the
\* entities it writes are not escaped again)
Esc(c) ==
  CASE c = "&" -> "&amp;"
    [] c = "<" -> "&lt;"
    [] c = ">" -> "&gt;"
    [] c = "\"" -> "&quot;"
    [] c = "'" -> "&apos;"
    [] OTHER -> c

\* " <break time=\"<ms>\"/> "
BreakTag(ms) == <<" ", "<", "break", " ", "time", "=", "\"", ms, "\"", "/", ">", " ">>

IsDots(c) == c \in {".", "..."}

RECURSIVE DotRunEnd(_, _)
\* the first position after the run of dots that starts at i
DotRunEnd(s, i) == IF i <= Len(s) /\ IsDots(s[i]) THEN DotRunEnd(s, i + 1) ELSE i

RECURSIVE ReplaceEllipsis(_, _)
\* re.sub(r"\.\.\.+", " <break time=\"250ms\"/> ", normalized): every run of three
\* dots or more
ReplaceEllipsis(s, i) ==
  IF i > Len(s) THEN <<>>
  ELSE IF IsDots(s[i])
       THEN LET e == DotRunEnd(s, i)
            IN IF CharCount(s, i, e - 1) >= 3
               THEN BreakTag("250ms") \o ReplaceEllipsis(s, e)
               ELSE SubSeq(s, i, e - 1) \o ReplaceEllipsis(s, e)
       ELSE <<s[i]>> \o ReplaceEllipsis(s, i + 1)

\* _to_ssml(text), lines 134-146: the pauses are turned into break tags, then the
\* whole body, tags included, goes through esc
ToSsml(text) ==
  LET normalized == ReplaceEllipsis(ReplaceAll(text, <<"[", "pause", "]">>, BreakTag("450ms")), 1)
      body == [k \in 1..Len(normalized) |-> Esc(normalized[k])]
  IN <<"<speak>", "<voice>">> \o body \o <<"</voice>", "</speak>">>

\* _generate_edge_tts_audio line 156: what Edge is handed, when it is tried
EdgeSsml(calls, text) ==
  IF \E k \in 1..Len(calls) : calls[k] = "edge" THEN ToSsml(text) ELSE <<>>

\* what one call of generate_audio did: the engines tried in order, those of
\* them that handed back no path, the text given to _to_ssml's caller and to the
\* other engines, the text Edge was handed, the value returned, the file left
TtsRun(calls, failed, sent, path, file) ==
  [calls |-> calls, failed |-> failed, sent |-> sent, result |-> path, file |-> file]

\* _generate_gtts_audio: the saved file is returned whatever it holds
GttsRuns(calls, failed, sent, prev) ==
  { TtsRun(Append(calls, "gtts"),
           IF o = NoFile THEN Append(failed, "gtts") ELSE failed,
           sent, IF o = NoFile THEN None ELSE "path", Left(prev, o)) :
      o \in EngineOutcomes }

\* _generate_elevenlabs_audio: the response body is written and returned whatever
\* it holds; an exception falls back to gTTS
ElevenRuns(calls, failed, sent, prev) ==
  { TtsRun(Append(calls, "eleven"), failed, sent, "path", o) : o \in AudioWrites }
  \cup GttsRuns(Append(calls, "eleven"), Append(failed, "eleven"), sent, prev)

\* the paid engine left out: gTTS follows Edge whatever the key
AfterEdgeSkipsPaid(calls, sent, key, e) ==
  IF EdgeAccepts(e) THEN { TtsRun(calls, <<>>, sent, "path", e) }
  ELSE GttsRuns(calls, <<"edge">>, sent, e)

\* generate_audio, lines 40-51, after an Edge attempt that left e
AfterEdge(calls, sent, key, e) ==
  IF EdgeAccepts(e) THEN { TtsRun(calls, <<>>, sent, "path", e) }
  ELSE IF key THEN ElevenRuns(calls, <<"edge">>, sent, e)
  ELSE GttsRuns(calls, <<"edge">>, sent, e)

\* generate_audio(text, output_path): every run the engines allow
GenerateAudioRuns(text, key) ==
  LET cleaned == SanitizeForTts(text)
  IN IF EmptyAfterSanitize(cleaned)
     THEN { TtsRun(<<"sanitize">>, <<>>, cleaned, None, NoFile) }
     ELSE UNION { AfterEdge(<<"sanitize", "edge">>, cleaned, key, e) : e \in EngineOutcomes }

\* ------------------------------------------------ main: segment loop

\* the for loop of main line 71 moves on to segment i
LoopPc(i) == IF i > nseg THEN "collected" ELSE "audio"

\* the artifact put in front of the list
PrependArtifact(list, art) == <<art>> \o list

\* the list overwritten by the one artifact
ReplaceArtifact(list, art) == <<art>>

\* final_segments.append({...}), main lines 105-109
AppendArtifact(list, art) == Append(list, art)

\* main lines 72-87: clean the spoken text, generate the audio, `continue` on
\* failure.  audio_files keeps the file of a returned path; what a failed call
\* left at the path of a skipped segment is read by nothing afterwards
GenerateAudio ==
  /\ pc = "audio"
  /\ \E script \in SampleTexts :
       \E r \in GenerateAudioRuns(MainClean(script), elevenlabs_api_key) :
         /\ tts' = [input |-> MainClean(script), calls |-> r.calls,
                    failed |-> r.failed, sent |-> r.sent,
                    ssml |-> EdgeSsml(r.calls, r.sent), result |-> r.result]
         /\ IF r.result = None
            THEN /\ idx' = idx + 1
                 /\ pc' = LoopPc(idx + 1)
                 /\ UNCHANGED audio_files
            ELSE /\ idx' = idx
                 /\ pc' = "overlay"
                 /\ audio_files' = [audio_files EXCEPT ![idx] = r.file]
  /\ UNCHANGED << status, exit_code, full_img_path, img_files, final_segments >>
  /\ UNCHANGED runVars
  /\ UNCHANGED asmVars
  /\ UNCHANGED libVars

\* main lines 90-97 and generate_overlay: the capture is written and its path
\* returned whatever its size
GenerateOverlay ==
  /\ pc = "overlay"
  /\ \E size \in ImageSizes : img_files' = [img_files EXCEPT ![idx] = size]
  /\ full_img_path' = idx
  /\ tts' = NoCall
  /\ pc' = "ticker"
  /\ UNCHANGED << status, exit_code, idx, audio_files, final_segments >>
  /\ UNCHANGED runVars
  /\ UNCHANGED asmVars
  /\ UNCHANGED libVars

\* main lines 101-109 and generate_ticker_image
GenerateTicker ==
  /\ pc = "ticker"
  /\ final_segments' =
       IF full_img_path # 0
       THEN AppendArtifact(final_segments,
              [audio |-> idx, image |-> full_img_path, ticker_image |-> idx])
       ELSE final_segments
  /\ full_img_path' = 0
  /\ idx' = idx + 1
  /\ pc' = LoopPc(idx + 1)
  /\ UNCHANGED << status, exit_code, tts, audio_files, img_files >>
  /\ UNCHANGED runVars
  /\ UNCHANGED asmVars
  /\ UNCHANGED libVars

\* generate_overlay and generate_ticker_image catch nothing (browser launch,
\* screenshot, getsize, a missing #ticker-content element): the exception leaves
\* main and the handler of main lines 146-153 exits with 1
RendererRaises ==
  /\ pc \in {"overlay", "ticker"}
  /\ pc' = "done"
  /\ status' = "critical error"
  /\ exit_code' = 1
  /\ tts' = NoCall
  /\ UNCHANGED << idx, full_img_path, audio_files, img_files, final_segments >>
  /\ UNCHANGED runVars
  /\ UNCHANGED asmVars
  /\ UNCHANGED libVars

\* the test for an empty list left out
NoValidSegmentsNever(list) == FALSE

\* if not final_segments, main line 111
NoValidSegments(list) == list = <<>>

\* main lines 111-113
CheckSegments ==
  /\ pc = "collected"
  /\ IF NoValidSegments(final_segments)
     THEN pc' = "done" /\ status' = "no valid segments" /\ exit_code' = 1
     ELSE pc' = "background" /\ UNCHANGED << status, exit_code >>
  /\ tts' = NoCall
  /\ UNCHANGED << idx, full_img_path, audio_files, img_files, final_segments >>
  /\ UNCHANGED runVars
  /\ UNCHANGED asmVars
  /\ UNCHANGED libVars

\* main line 116 and get_background_video: the downloaded file (an image, or
\* whatever the server sent) or nothing; the kind is always "image"
GetBackground ==
  /\ pc = "background"
  /\ \E b \in BackgroundInputs :
       /\ b.kind = "image"
       /\ bg_path' = b.path
       /\ bg_type' = b.kind
       /\ bg_file' = b.file
  /\ pc' = "assemble"
  /\ UNCHANGED << status, exit_code, asm_stage, asm_i, clips, audio_clips,
                  final_video, final_audio, out_file, final_path >>
  /\ UNCHANGED runVars
  /\ UNCHANGED renderVars
  /\ UNCHANGED libVars

\* ------------------------------------- video_editor.py: assemble_video

RECURSIVE SumDur(_)
SumDur(cl) == IF cl = <<>> THEN 0 ELSE Head(cl).dur + SumDur(Tail(cl))

\* np.cumsum([0] + durations)[k - 1]: the durations before the k-th clip
CumStart(cl, k) == SumDur(SubSeq(cl, 1, k - 1))

\* concatenate_videoclips(clips, method="compose", padding=p), line 115:
\* tt = np.maximum(0, cumsum + p * arange); clip k starts at tt[k], the
\* result lasts tt[-1]
ConcatenateVideoclips(cl, p) ==
  [starts |-> [k \in 1..Len(cl) |-> SeqMax(0, CumStart(cl, k) + p * (k - 1))],
   duration |-> SeqMax(0, SumDur(cl) + p * Len(cl))]

\* concatenate_audioclips(audio_clips), line 118: one after the other
ConcatenateAudioclips(ac) ==
  [starts |-> [k \in 1..Len(ac) |-> CumStart(ac, k)], duration |-> SumDur(ac)]

\* AudioFileClip(path) and ImageClip(path) raise on a file that holds nothing
AudioReadable(f) == f.size > 0

ImageReadable(size) == size > 0

\* a_path and os.path.exists(a_path), line 38
AudioExists(a_path) == a_path # 0 /\ audio_files[a_path] # NoFile

\* a frame region: what is kept of a w x h frame is [x1, x2) x [y1, y2)
WholeFrame == [w |-> OutW, h |-> OutH, x1 |-> 0, x2 |-> OutW, y1 |-> 0, y2 |-> OutH]

\* clip.resize(height=hh): newsize = [w * hh / h, hh], cut to integers
ResizeHeight(file, hh) == [w |-> (file.w * hh) \div file.h, h |-> hh]

\* clip.crop(x1=xa, y1=ya, width=cw, height=ch): frame[ya:ya+ch, xa:xa+cw]
Crop(size, xa, ya, cw, ch) ==
  [w |-> size.w, h |-> size.h,
   x1 |-> SeqMin(xa, size.w), x2 |-> SeqMin(xa + cw, size.w),
   y1 |-> SeqMin(ya, size.h), y2 |-> SeqMin(ya + ch, size.h)]

\* .resize(height=1920).crop(x1=0, y1=0, width=1080, height=1920), lines 57, 75
FitToFrame(file) == Crop(ResizeHeight(file, OutH), 0, 0, OutW, OutH)

\* vfx.loop(clip, duration=d): the clip over and over, d long
Loop(frames, d) == [dur |-> d, covered |-> d]

\* clip.subclip(t_start, t_end): t_end - t_start long, with frames of the clip
\* up to the clip's end
Subclip(frames, t_start, t_end) ==
  [dur |-> t_end - t_start, covered |-> SeqMax(0, SeqMin(frames, t_end) - t_start)]

\* the background video never looped
FitVideoTrimOnly(frames, seg_duration) == Subclip(frames, 0, seg_duration)

\* lines 51-56: loop a video shorter than the segment, else trim it
FitVideo(frames, seg_duration) ==
  IF frames < seg_duration THEN Loop(frames, seg_duration)
  ELSE Subclip(frames, 0, seg_duration)

\* lines 46-75: the background of one segment: how long it is, how much of
\* that holds picture, and the region kept of the resized frame
BackgroundClip(path, kind, file, seg_duration) ==
  IF path = None
  THEN [kind |-> "gradient", dur |-> seg_duration, covered |-> seg_duration,
        looped |-> FALSE, crop |-> WholeFrame]
  ELSE IF kind = "video"
  THEN LET v == FitVideo(file.frames, seg_duration)
       IN [kind |-> "video", dur |-> v.dur, covered |-> v.covered,
           looped |-> file.frames < seg_duration, crop |-> FitToFrame(file)]
  ELSE IF path = "static"
  THEN [kind |-> "static", dur |-> seg_duration, covered |-> seg_duration,
        looped |-> FALSE, crop |-> FitToFrame(file)]
  ELSE [kind |-> "image", dur |-> seg_duration, covered |-> seg_duration,
        looped |-> FALSE, crop |-> WholeFrame]

\* lines 15-29, entered from main line 131
AssembleBegin ==
  /\ pc = "assemble"
  /\ asm_stage = "idle"
  /\ asm_stage' = "compose"
  /\ asm_i' = 1
  /\ clips' = <<>>
  /\ audio_clips' = <<>>
  /\ UNCHANGED << pc, status, exit_code, bg_path, bg_type, bg_file, final_video, final_audio,
                  out_file, final_path >>
  /\ UNCHANGED runVars
  /\ UNCHANGED renderVars
  /\ UNCHANGED libVars

\* the loop entered again after a failure
AssembleRetried ==
  /\ asm_stage' = "compose"
  /\ final_path' = None

\* the return None of the except clause, lines 136-140
AssembleFailed ==
  /\ asm_stage' = "failed"
  /\ final_path' = None

\* lines 31-100, one pass of the loop; AudioFileClip, ImageClip(bg_path) (in the
\* Ken Burns branch and again in its fallback) and ImageClip(i_path) raise on a
\* file they cannot read, which ends the call at lines 136-140
ComposeSegment ==
  /\ pc = "assemble"
  /\ asm_stage = "compose"
  /\ asm_i <= Len(final_segments)
  /\ LET seg == final_segments[asm_i]
         a_path == seg.audio
         i_path == seg.image
         has_audio == AudioExists(a_path)
         seg_duration == IF has_audio THEN audio_files[a_path].dur ELSE DefaultSegFrames
         bg == BackgroundClip(bg_path, bg_type, bg_file, seg_duration)
     IN IF i_path = 0
        THEN /\ asm_i' = asm_i + 1
             /\ UNCHANGED << asm_stage, clips, audio_clips, final_path >>
        ELSE IF \/ has_audio /\ ~AudioReadable(audio_files[a_path])
                \/ bg_path = "corrupt"
                \/ ~ImageReadable(img_files[i_path])
        THEN /\ AssembleFailed
             /\ UNCHANGED << asm_i, clips, audio_clips >>
        ELSE /\ audio_clips' = IF has_audio
                               THEN Append(audio_clips, [src |-> a_path, dur |-> seg_duration])
                               ELSE audio_clips
             /\ clips' = Append(clips, [src |-> i_path, dur |-> seg_duration,
                                        bg |-> bg.kind, fade |-> asm_i > 1,
                                        bg_clip |-> bg])
             /\ asm_i' = asm_i + 1
             /\ UNCHANGED << asm_stage, final_path >>
  /\ UNCHANGED << pc, status, exit_code, bg_path, bg_type, bg_file, final_video,
                  final_audio, out_file >>
  /\ UNCHANGED runVars
  /\ UNCHANGED renderVars
  /\ UNCHANGED libVars

\* lines 102-119
Concatenate ==
  /\ pc = "assemble"
  /\ asm_stage = "compose"
  /\ asm_i > Len(final_segments)
  /\ IF clips = <<>> \/ audio_clips = <<>>
     THEN /\ AssembleFailed
          /\ UNCHANGED << final_video, final_audio >>
     ELSE /\ final_video' = ConcatenateVideoclips(clips, -CrossfadeFrames)
          /\ final_audio' = ConcatenateAudioclips(audio_clips)
          /\ asm_stage' = "encode"
          /\ UNCHANGED final_path
  /\ UNCHANGED << pc, status, exit_code, bg_path, bg_type, bg_file, asm_i, clips,
                  audio_clips, out_file >>
  /\ UNCHANGED runVars
  /\ UNCHANGED renderVars
  /\ UNCHANGED libVars

\* lines 121-134: write_videofile ran to its end
Encode ==
  /\ pc = "assemble"
  /\ asm_stage = "encode"
  /\ out_file' = "complete"
  /\ final_path' = "output_path"
  /\ asm_stage' = "done"
  /\ UNCHANGED << pc, status, exit_code, bg_path, bg_type, bg_file, asm_i, clips, audio_clips,
                  final_video, final_audio >>
  /\ UNCHANGED runVars
  /\ UNCHANGED renderVars
  /\ UNCHANGED libVars

\* write_videofile raises, caught at lines 136-140: the writer had opened
\* output_path or not, and what it wrote stays there
EncodeRaises ==
  /\ pc = "assemble"
  /\ asm_stage = "encode"
  /\ out_file' \in {"none", "partial"}
  /\ AssembleFailed
  /\ UNCHANGED << pc, status, exit_code, bg_path, bg_type, bg_file, asm_i, clips, audio_clips,
                  final_video, final_audio >>
  /\ UNCHANGED runVars
  /\ UNCHANGED renderVars
  /\ UNCHANGED libVars

\* ------------------------------------------------------- main: the end

\* the id written with the end of its line
UnsafeId(article_id) == Append(article_id, "\n")

\* NewsFetcher._save_processed_id: str(article_id).replace("\n", "").strip()
SafeId(article_id) == Strip(SelectSeq(article_id, LAMBDA t : t # "\n"))

\* the result of the assembly not looked at
AssemblySucceededAlways(path, file) == TRUE

\* final_path and os.path.exists(final_path), main line 133
AssemblySucceeded(path, file) == path # None /\ file # "none"

\* main lines 133-144, with mark_as_processed
FinishRun ==
  /\ pc = "assemble"
  /\ asm_stage \in {"done", "failed"}
  /\ pc' = "done"
  /\ IF AssemblySucceeded(final_path, out_file)
     THEN /\ processed_ids' = processed_ids \cup {SafeId(article)}
          /\ status' = "success"
          /\ exit_code' = 0
     ELSE /\ status' = "assembly failed"
          /\ exit_code' = 1
          /\ UNCHANGED processed_ids
  /\ UNCHANGED << elevenlabs_api_key, news_items, article, nseg >>
  /\ UNCHANGED renderVars
  /\ UNCHANGED asmVars
  /\ UNCHANGED libVars

Next ==
  \/ FetchNothing
  \/ FetchNews
  \/ PickAndGenerateScript
  \/ GenerateAudio
  \/ GenerateOverlay
  \/ GenerateTicker
  \/ RendererRaises
  \/ CheckSegments
  \/ GetBackground
  \/ AssembleBegin
  \/ ComposeSegment
  \/ Concatenate
  \/ Encode
  \/ EncodeRaises
  \/ FinishRun

Spec == Init /\ [][Next]_vars

\* ------------------------------ video_editor.py: assemble_video on its own

\* the files of generated/ the artifact lists refer to: narrations 1 and 2
\* and slides 1 and 2 are sound, narration 3 and slide 3 hold nothing
SampleAudioFiles ==
  << [size |-> EdgeMinBytes, dur |-> ShortAudio], [size |-> BigFile, dur |-> LongAudio],
     [size |-> 0, dur |-> 0] >>

SampleImageFiles == << BigFile, BigFile, 0 >>

\* one entry of the list: a narration and a slide, an entry with no narration,
\* one with no slide, one whose files cannot be read
SampleArtifacts ==
  { [audio |-> 1, image |-> 1], [audio |-> 2, image |-> 2], [audio |-> 0, image |-> 1],
    [audio |-> 1, image |-> 0], [audio |-> 3, image |-> 3] }

RECURSIVE ArtifactLists(_)
ArtifactLists(n) ==
  IF n = 0 THEN { <<>> }
  ELSE LET shorter == ArtifactLists(n - 1)
       IN shorter \cup { Append(s, a) : s \in shorter, a \in SampleArtifacts }

\* assemble_video(None, segments, output_path, bg_path, bg_type) about to run
AssembleInit ==
  /\ pc = "assemble"
  /\ status = ""
  /\ exit_code = -1
  /\ elevenlabs_api_key = FALSE
  /\ processed_ids = {}
  /\ news_items = <<>>
  /\ article = NoArticle
  /\ nseg = 0
  /\ idx = 1
  /\ tts = NoCall
  /\ full_img_path = 0
  /\ audio_files = [i \in SegmentIndexes |->
                      IF i <= Len(SampleAudioFiles) THEN SampleAudioFiles[i] ELSE NoFile]
  /\ img_files = [i \in SegmentIndexes |->
                    IF i <= Len(SampleImageFiles) THEN SampleImageFiles[i] ELSE -1]
  /\ final_segments \in ArtifactLists(MaxSegments)
  /\ \E b \in BackgroundInputs :
       /\ bg_path = b.path
       /\ bg_type = b.kind
       /\ bg_file = b.file
  /\ asm_stage = "idle"
  /\ asm_i = 1
  /\ clips = <<>>
  /\ audio_clips = <<>>
  /\ final_video = NoTimeline
  /\ final_audio = NoTimeline
  /\ out_file = "none"
  /\ final_path = None
  /\ LibIdle

AssembleNext ==
  \/ AssembleBegin
  \/ ComposeSegment
  \/ Concatenate
  \/ Encode
  \/ EncodeRaises

AssembleSpec == AssembleInit /\ [][AssembleNext]_vars

\* ------------------------ visual_gen.py: generate_overlay on its own

\* the tokens of a headline: words, a blank, the characters of markup
OverlayAlphabet == {"a", "BREAKING", "lt;", " ", "<", ">", "&"}

\* the tokens that start with a letter
OverlayWords == {"a", "BREAKING", "lt;", "Top", "Story", "Loading"}

RECURSIVE OverlayTexts(_)
OverlayTexts(n) ==
  IF n = 0 THEN { <<>> }
  ELSE LET shorter == OverlayTexts(n - 1)
       IN shorter \cup { Append(s, c) : s \in shorter, c \in OverlayAlphabet }

SampleSummaries == { <<>>, <<"a", " ", "a">>, <<"<", "a", ">">> }

\* html.escape on one token (the quotes are not among the tokens)
HtmlEscapeToken(c) ==
  CASE c = "&" -> "&amp;"
    [] c = "<" -> "&lt;"
    [] c = ">" -> "&gt;"
    [] OTHER -> c

\* html.escape(s), lines 361-364
HtmlEscape(s) == [k \in 1..Len(s) |-> HtmlEscapeToken(s[k])]

\* the spans wrapWords writes, template lines 187-190
SpanOpen == "<span class=word>"

SpanClose == "</span>"

\* the tokens that end a tag
ClosesTag(c) == c \in {">", SpanOpen, SpanClose}

\* the place of the first token from k on that ends a tag, 0 for none
RECURSIVE TagEnd(_, _)
TagEnd(m, k) ==
  IF k > Len(m) THEN 0
  ELSE IF ClosesTag(m[k]) THEN k
  ELSE TagEnd(m, k + 1)

TextNode(c) == [kind |-> "text", val |-> c, origin |-> "text"]

ElementNode(name, from) == [kind |-> "element", val |-> name, origin |-> from]

\* what the browser makes of markup, as set_content and innerHTML do: a
\* character reference is one character of text, "<" and a letter open a
\* tag that runs to the next ">" (or eats the rest when there is none),
\* anything else is text
RECURSIVE ParseHtml(_)
ParseHtml(m) ==
  IF m = <<>> THEN <<>>
  ELSE LET h == Head(m)
           rest == Tail(m)
       IN CASE h = "&lt;" -> << TextNode("<") >> \o ParseHtml(rest)
            [] h = "&gt;" -> << TextNode(">") >> \o ParseHtml(rest)
            [] h = "&amp;" -> << TextNode("&") >> \o ParseHtml(rest)
            [] h \in {SpanOpen, SpanClose} ->
                 << ElementNode(h, "template") >> \o ParseHtml(rest)
            [] h = "&" /\ rest # <<>> /\ Head(rest) = "lt;" ->
                 << TextNode("<") >> \o ParseHtml(Tail(rest))
            [] h = "<" /\ rest # <<>> /\ Head(rest) \in OverlayWords ->
                 LET e == TagEnd(rest, 1)
                 IN IF e = 0 THEN <<>>
                    ELSE << ElementNode(Head(rest), "text") >>
                           \o ParseHtml(SubSeq(rest, e + 1, Len(rest)))
            [] OTHER -> << TextNode(h) >> \o ParseHtml(rest)

\* node.innerText: the characters of the text nodes as they are laid out,
\* runs of blanks as one and none at the ends
InnerText(nodes) ==
  LET texts == SelectSeq(nodes, LAMBDA x : x.kind = "text")
  IN NormalizeSpaces([k \in 1..Len(texts) |-> texts[k].val])

\* str.split(' ') then one span around each part, joined with nothing
\* between, template lines 187-190
RECURSIVE WrapWords(_)
WrapWords(str) ==
  IF str = <<>> THEN <<>>
  ELSE LET sp == CHOOSE k \in 1..(Len(str) + 1) :
                   /\ k = Len(str) + 1 \/ str[k] = " "
                   /\ \A j \in 1..(k - 1) : str[j] # " "
           word == SubSeq(str, 1, sp - 1)
           after == SubSeq(str, sp + 1, Len(str))
       IN << SpanOpen >> \o word \o << SpanClose >> \o
          (IF sp = Len(str) THEN << SpanOpen, SpanClose >> ELSE WrapWords(after))

\* _build_label, lines 288-304
BuildLabel(headline) ==
  IF headline = <<>> THEN << "TOP", " ", "STORY" >>
  ELSE IF \E k \in 1..Len(headline) : headline[k] = "BREAKING" THEN << "BREAKING" >>
  ELSE << "TOP", " ", "STORY" >>

\* headline or "Top Story", summary_text or "Loading...", lines 361-362
OrDefault(s, default) == IF s = <<>> THEN default ELSE s

\* generate_overlay(headline, ticker_text, summary_text, filename) is called
OverlayInit ==
  /\ MainIdle
  /\ SanIdle
  /\ DedupIdle
  /\ ScriptIdle
  /\ RunsIdle
  /\ overlay_pc = "call"
  /\ overlay_text \in [headline : OverlayTexts(MaxOverlayLen), summary : SampleSummaries]
  /\ page = NoPage
  /\ screenshot = NoPage

\* lines 359-370: the escaped texts put into the template, the page loaded
SetContent ==
  /\ overlay_pc = "call"
  /\ LET safe_headline == HtmlEscape(OrDefault(overlay_text.headline, << "Top", " ", "Story" >>))
         safe_summary == HtmlEscape(OrDefault(overlay_text.summary, << "Loading", ".", ".", "." >>))
         safe_label == HtmlEscape(BuildLabel(overlay_text.headline))
     IN page' = [label |-> ParseHtml(safe_label), headline |-> ParseHtml(safe_headline),
                 summary |-> ParseHtml(safe_summary)]
  /\ overlay_pc' = "loaded"
  /\ UNCHANGED << overlay_text, screenshot, mainVars, sanVars, dedupVars, scriptVars, runsVars >>

\* line 374 and animateContent, template lines 196-206: the headline and the
\* summary read back as text and written again as markup
AnimateContent ==
  /\ overlay_pc = "loaded"
  /\ page' = [page EXCEPT !.headline = ParseHtml(WrapWords(InnerText(page.headline))),
                          !.summary = ParseHtml(WrapWords(InnerText(page.summary)))]
  /\ overlay_pc' = "animated"
  /\ UNCHANGED << overlay_text, screenshot, mainVars, sanVars, dedupVars, scriptVars, runsVars >>

\* lines 376-394: the page captured as it stands
Screenshot ==
  /\ overlay_pc = "animated"
  /\ screenshot' = page
  /\ overlay_pc' = "captured"
  /\ UNCHANGED << overlay_text, page, mainVars, sanVars, dedupVars, scriptVars, runsVars >>

OverlayNext ==
  \/ SetContent
  \/ AnimateContent
  \/ Screenshot

OverlaySpec == OverlayInit /\ [][OverlayNext]_vars

\* ------------------------------- audio_gen.py: the sanitizer on its own

\* the characters and words the texts handed to the sanitizer are made of
SanitizerAlphabet == {"hello", "world", "Voice", ":", " "}

RECURSIVE TextsUpTo(_)
TextsUpTo(n) ==
  IF n = 0 THEN { <<>> }
  ELSE LET shorter == TextsUpTo(n - 1)
       IN shorter \cup { Append(s, c) : s \in shorter, c \in SanitizerAlphabet }

\* two adjacent words of the model are one word of a text: texts are written
\* with no two words side by side
WellFormedText(s) == \A k \in 1..(Len(s) - 1) : ~(IsWord(s[k]) /\ IsWord(s[k + 1]))

SanitizeInit ==
  /\ MainIdle
  /\ OverlayIdle
  /\ original \in { s \in TextsUpTo(MaxTextLen) : WellFormedText(s) }
  /\ clean = original
  /\ prev_clean = original
  /\ passes = 0
  /\ DedupIdle
  /\ ScriptIdle
  /\ RunsIdle

\* clean = self._sanitize_for_tts(clean)
SanitizeCall ==
  /\ passes < MaxPasses
  /\ clean' = SanitizeForTts(clean)
  /\ prev_clean' = clean
  /\ passes' = passes + 1
  /\ UNCHANGED << original, mainVars, overlayVars, dedupVars, scriptVars, runsVars >>

SanitizeNext == SanitizeCall

SanitizeSpec == SanitizeInit /\ [][SanitizeNext]_vars

\* ------------------------------------------------- dedup_manager.py

\* title.lower(), one word at a time
TitleLower(c) ==
  CASE c \in {"Markets", "MARKETS"} -> "markets"
    [] c = "Breaking" -> "breaking"
    [] c = "Update" -> "update"
    [] OTHER -> c

LowerTitle(title) == [k \in 1..Len(title) |-> TitleLower(title[k])]

\* ["breaking:", "update:", "just in:", "exclusive:"]
DedupPrefixes ==
  << <<"breaking", ":">>, <<"update", ":">>, <<"just", " ", "in", ":">>,
     <<"exclusive", ":">> >>

RECURSIVE StripPrefixes(_, _)
\* lines 61-63: each prefix is looked for once, in the order of the list
StripPrefixes(normalized, k) ==
  IF k > Len(DedupPrefixes) THEN normalized
  ELSE StripPrefixes(
         IF StartsWith(normalized, DedupPrefixes[k])
         THEN Strip(Drop(normalized, Len(DedupPrefixes[k])))
         ELSE normalized,
         k + 1)

\* hashlib.md5(hash_input.encode('utf-8')).hexdigest(): one digest per input
Md5(hash_input) == <<"md5">> \o hash_input

\* _generate_hash(title), lines 59-67
GenerateHash(title) == Md5(StripPrefixes(Strip(LowerTitle(title)), 1))

\* the digest of the title as given
GenerateHashRaw(title) == Md5(title)

\* the key mark_processed stores the record under, line 94
MarkHash(title) == GenerateHash(title)

\* no entry is ever too old
ExpiredNever(now, timestamp) == FALSE

\* current_time - entry.get("timestamp", 0) > ttl_seconds
Expired(now, timestamp) == now - timestamp > TtlDays

\* _cleanup_expired: the entries left
Unexpired(hashes, now) ==
  [h \in { x \in DOMAIN hashes : ~Expired(now, hashes[x]) } |-> hashes[h]]

\* self.data["hashes"][article_hash] = {"timestamp": time.time(), ...}
Put(hashes, h, timestamp) ==
  [x \in DOMAIN hashes \cup {h} |-> IF x = h THEN timestamp ELSE hashes[x]]

\* the titles of the articles handed to the manager
SampleTitles ==
  { <<>>,
    <<"Markets", " ", "rally">>,
    <<"markets", " ", " ", "rally">>,
    <<"Breaking", ":", " ", "Markets", " ", "rally">>,
    <<"Update", ":", " ", "Breaking", ":", " ", "Markets", " ", "rally">> }

\* the days on which something happens
Instants == {0, 1, MaxClock - 1, MaxClock}

\* the title that the latest call marked, for the call that follows it
JustMarked == IF last_op.op = "mark_processed" THEN last_op.title ELSE NotMarked

DedupInit ==
  /\ MainIdle
  /\ OverlayIdle
  /\ SanIdle
  /\ DedupIdle
  /\ ScriptIdle
  /\ RunsIdle

\* time passes
Tick ==
  /\ current_time' \in { d \in Instants : d > current_time }
  /\ UNCHANGED << db_file, data, loaded_at, last_op, mainVars, overlayVars, sanVars, scriptVars, runsVars >>

\* DedupManager(): _load_db, then _cleanup_expired, which saves when it removed
\* something; _save_db prints and goes on when the write fails
Load ==
  /\ data' = Unexpired(db_file, current_time)
  /\ \/ db_file' = data'
     \/ db_file' = db_file
  /\ loaded_at' = current_time
  /\ last_op' = [op |-> "load", title |-> <<>>, result |-> FALSE, marked |-> NotMarked,
                 at |-> current_time]
  /\ UNCHANGED << current_time, mainVars, overlayVars, sanVars, scriptVars, runsVars >>

\* is_duplicate(article)
IsDuplicate ==
  /\ \E title \in SampleTitles :
       last_op' = [op |-> "is_duplicate", title |-> title,
                   result |-> title # <<>> /\ GenerateHash(title) \in DOMAIN data,
                   marked |-> JustMarked, at |-> current_time]
  /\ UNCHANGED << db_file, data, current_time, loaded_at, mainVars, overlayVars, sanVars, scriptVars, runsVars >>

\* mark_processed(article)
MarkProcessed ==
  /\ \E title \in SampleTitles :
       /\ last_op' = [op |-> "mark_processed", title |-> title, result |-> FALSE,
                      marked |-> NotMarked, at |-> current_time]
       /\ IF title = <<>>
          THEN UNCHANGED << data, db_file >>
          ELSE /\ data' = Put(data, MarkHash(title), current_time)
               /\ \/ db_file' = data'
                  \/ db_file' = db_file
  /\ UNCHANGED << current_time, loaded_at, mainVars, overlayVars, sanVars, scriptVars, runsVars >>

DedupNext == Tick \/ Load \/ IsDuplicate \/ MarkProcessed

DedupSpec == DedupInit /\ [][DedupNext]_vars

\* ------------------------------------------------------ script_gen.py
\* A text is the sequence of the lengths of its words, as split(" ") gives
\* them; a piece of markup or of whitespace that the cleaning takes away is a
\* word of length 0.

\* "More details to follow."
DefaultContent == <<4, 7, 2, 7>>

\* len(" ".join(words))
RECURSIVE JoinLen(_)
JoinLen(words) ==
  IF words = <<>> THEN 0
  ELSE IF Len(words) = 1 THEN words[1]
  ELSE words[1] + 1 + JoinLen(Tail(words))

\* article.get('full_content', '') or article.get('description', '') or "More
\* details to follow.", line 357
ContentSource(a) ==
  IF a.full_content # <<>> THEN a.full_content
  ELSE IF a.description # <<>> THEN a.description
  ELSE DefaultContent

\* lines 360-366 and 377: soup.get_text(separator=" ", strip=True) keeps the
\* pieces of text alone; without bs4 the tags are replaced by "" and the
\* words around them stay apart; then content_source.split(" ")
CleanedWords(content, soup) ==
  IF soup
  THEN LET kept == SelectSeq(content, LAMBDA w : w > 0)
       IN IF kept = <<>> THEN <<0>> ELSE kept
  ELSE content

Segment(words) == [visual |-> words, script |-> words]

RECURSIVE BuildSegments(_, _, _, _, _)
\* lines 375-394: the loop over the words, then the segment left open
BuildSegments(words, i, current_segment, current_len, segments) ==
  IF i > Len(words)
  THEN IF current_segment # <<>> THEN Append(segments, Segment(current_segment))
       ELSE segments
  ELSE IF current_len + words[i] > SegmentChars
       THEN BuildSegments(words, i + 1, <<words[i]>>, words[i],
                          Append(segments, Segment(current_segment)))
       ELSE BuildSegments(words, i + 1, Append(current_segment, words[i]),
                          current_len + words[i] + 1, segments)

\* _backup_template(article), lines 356-411: the segments of the script
BackupTemplate(a, soup) ==
  LET words == CleanedWords(ContentSource(a), soup)
      built == BuildSegments(words, 1, <<>>, 0, <<>>)
      segments == SubSeq(built, 1, SeqMin(MaxBackupSegments, Len(built)))
  IN IF segments = <<>> THEN << Segment(words) >> ELSE segments

WordLens == {0, ShortWord, LongWord}

RECURSIVE WordSeqs(_)
WordSeqs(n) ==
  IF n = 0 THEN { <<>> }
  ELSE LET shorter == WordSeqs(n - 1)
       IN shorter \cup { Append(s, w) : s \in shorter, w \in WordLens }

\* the articles of a pool: the first has any text, a second one is plain
SampleArticles ==
  { [full_content |-> c, description |-> d] :
      c \in WordSeqs(MaxWords), d \in { <<>>, <<ShortWord>> } }

PlainArticle == [full_content |-> <<ShortWord, ShortWord>>, description |-> <<>>]

SamplePools ==
  { <<>> } \cup { <<a>> : a \in SampleArticles } \cup { <<a, PlainArticle>> : a \in SampleArticles }

\* what a 200 answer of Gemini can hold once parsed: chosen_index and the
\* number of segments (-1: no "segments" key)
GeminiAnswers ==
  { [chosen_index |-> c, segments |-> n] : c \in {-1, 0, 1, 2}, n \in {-1, 0, 1, MaxSegments} }

\* the segments of a Gemini script, their texts left out
GeminiSegments(n) == [k \in 1..SeqMax(n, 0) |-> Segment(<<ShortWord>>)]

\* the answers of the provider: a status, or the request raised
FailedResponses == {"429", "500", "exception"}

\* the answer to a request sent to a URL ending in to
Answer(url, code) == [to |-> url, status |-> code]

\* what _discover_model returns None on, lines 27-70: no 200, an exception,
\* or a list with no model that generates content
ListModelsFailures == { Answer("models", r) : r \in {"200"} \cup FailedResponses }

\* the key alone looked at
UnavailableNoKey(disabled, key) == ~key

\* self.gemini_disabled or not self.api_key, lines 21, 80, 253, 422
Unavailable(disabled, key) == disabled \/ ~key

\* the same wait before every attempt
WaitTimeFlat(k) == BaseDelay

\* wait_time = base_delay * (2 ** attempt), line 183
WaitTime(k) == BaseDelay * 2^k

\* ScriptGenerator() constructed, pick_and_generate_script(articles) called
ScriptInit ==
  /\ MainIdle
  /\ OverlayIdle
  /\ SanIdle
  /\ DedupIdle
  /\ RunsIdle
  /\ articles \in SamplePools
  /\ api_key \in BOOLEAN
  /\ bs4 \in BOOLEAN
  /\ script_pc = "call"
  /\ attempt = 0
  /\ result = NoResult
  /\ gemini_disabled = FALSE
  /\ net_calls = 0
  /\ waits = <<>>
  /\ last_response = NoResponse
  /\ op = "pick_and_generate_script"

\* return {"chosen_article": articles[0], "script": self._backup_template(articles[0])}
BackupResult ==
  [returned |-> TRUE, chosen |-> 1, via |-> "backup",
   segments |-> BackupTemplate(articles[1], bs4)]

\* lines 78-79: if not articles: return None
NoArticles ==
  /\ script_pc = "call"
  /\ articles = <<>>
  /\ script_pc' = "returned"
  /\ result' = NoResult
  /\ UNCHANGED << callVars, attempt, net_calls, waits, last_response >>
  /\ UNCHANGED << mainVars, overlayVars, sanVars, dedupVars, runsVars >>

\* lines 80-87: the provider is not to be called, or _discover_model (lines
\* 16-70) asked it and came back with no model
BackupAtOnce ==
  /\ script_pc = "call"
  /\ articles # <<>>
  /\ IF Unavailable(gemini_disabled, api_key)
     THEN UNCHANGED << net_calls, last_response >>
     ELSE /\ net_calls < MaxCalls
          /\ net_calls' = net_calls + 1
          /\ last_response' \in ListModelsFailures
  /\ script_pc' = "returned"
  /\ result' = BackupResult
  /\ UNCHANGED << callVars, attempt, waits >>
  /\ UNCHANGED << mainVars, overlayVars, sanVars, dedupVars, runsVars >>

\* lines 84-89: _discover_model asked the provider and found a model
DiscoverModel ==
  /\ script_pc = "call"
  /\ articles # <<>>
  /\ ~Unavailable(gemini_disabled, api_key)
  /\ net_calls < MaxCalls
  /\ net_calls' = net_calls + 1
  /\ last_response' = Answer("models", "200")
  /\ script_pc' = "retry"
  /\ UNCHANGED << callVars, attempt, result, waits >>
  /\ UNCHANGED << mainVars, overlayVars, sanVars, dedupVars, runsVars >>

\* lines 181-232: the wait, the request, a 200 answer that parses
AttemptSucceeds ==
  /\ script_pc = "retry"
  /\ attempt < MaxRetries
  /\ net_calls < MaxCalls
  /\ waits' = Append(waits, WaitTime(attempt))
  /\ net_calls' = net_calls + 1
  /\ last_response' = Answer("generateContent", "200")
  /\ \E answer \in GeminiAnswers :
       LET chosen_idx == ChosenIdx(answer.chosen_index, articles)
       IN result' = [returned |-> TRUE, chosen |-> chosen_idx + 1, via |-> "gemini",
                     segments |-> GeminiSegments(answer.segments)]
  /\ script_pc' = "returned"
  /\ UNCHANGED << callVars, attempt >>
  /\ UNCHANGED << mainVars, overlayVars, sanVars, dedupVars, runsVars >>

\* lines 181-245: the wait, the request, then 429, another status, an answer
\* that does not parse or an exception: continue
AttemptFails ==
  /\ script_pc = "retry"
  /\ attempt < MaxRetries
  /\ net_calls < MaxCalls
  /\ waits' = Append(waits, WaitTime(attempt))
  /\ net_calls' = net_calls + 1
  /\ \E r \in {"200"} \cup FailedResponses : last_response' = Answer("generateContent", r)
  /\ attempt' = attempt + 1
  /\ UNCHANGED << callVars, script_pc, result >>
  /\ UNCHANGED << mainVars, overlayVars, sanVars, dedupVars, runsVars >>

\* lines 247-249: all retries exhausted
RetriesExhausted ==
  /\ script_pc = "retry"
  /\ attempt = MaxRetries
  /\ script_pc' = "returned"
  /\ result' = BackupResult
  /\ UNCHANGED << callVars, attempt, net_calls, waits, last_response >>
  /\ UNCHANGED << mainVars, overlayVars, sanVars, dedupVars, runsVars >>

ScriptNext ==
  \/ NoArticles
  \/ BackupAtOnce
  \/ DiscoverModel
  \/ AttemptSucceeds
  \/ AttemptFails
  \/ RetriesExhausted

ScriptSpec == ScriptInit /\ [][ScriptNext]_vars

\* the call goes on: no step of it waits for ever
ScriptLiveSpec == ScriptSpec /\ WF_vars(ScriptNext)

\* --------------------- script_gen.py: one ScriptGenerator, call after call

\* the pool and the article the calls are made with
AdapterPool == << PlainArticle, [full_content |-> <<>>, description |-> <<ShortWord>>] >>

\* ScriptGenerator() constructed
AdapterInit ==
  /\ MainIdle
  /\ OverlayIdle
  /\ SanIdle
  /\ DedupIdle
  /\ RunsIdle
  /\ articles \in { <<>>, AdapterPool }
  /\ api_key \in BOOLEAN
  /\ bs4 = TRUE
  /\ script_pc = "idle"
  /\ attempt = 0
  /\ result = NoResult
  /\ gemini_disabled = FALSE
  /\ net_calls = 0
  /\ waits = <<>>
  /\ last_response = NoResponse
  /\ op = ""

\* no call is in progress
AdapterFree == script_pc \in {"idle", "returned"}

\* pick_and_generate_script(articles) is called, lines 72-77
CallPickAndGenerate ==
  /\ AdapterFree
  /\ script_pc' = "call"
  /\ op' = "pick_and_generate_script"
  /\ attempt' = 0
  /\ waits' = <<>>
  /\ result' = NoResult
  /\ UNCHANGED << articles, api_key, bs4, gemini_disabled, net_calls, last_response >>
  /\ UNCHANGED << mainVars, overlayVars, sanVars, dedupVars, runsVars >>

\* generate_script(articles[0]), lines 251-327, from the call to the return
GenerateScript ==
  /\ AdapterFree
  /\ articles # <<>>
  /\ op' = "generate_script"
  /\ script_pc' = "returned"
  /\ LET backup == [returned |-> TRUE, chosen |-> 1, via |-> "backup",
                     segments |-> BackupTemplate(articles[1], bs4)]
     IN IF Unavailable(gemini_disabled, api_key)
        THEN /\ result' = backup
             /\ UNCHANGED << gemini_disabled, net_calls, last_response >>
        ELSE \/ /\ net_calls < MaxCalls
                /\ net_calls' = net_calls + 1
                /\ last_response' \in ListModelsFailures
                /\ result' = backup
                /\ UNCHANGED gemini_disabled
             \/ /\ net_calls + 1 < MaxCalls
                /\ net_calls' = net_calls + 2
                /\ \E r \in {"200"} \cup FailedResponses :
                     /\ last_response' = Answer("generateContent", r)
                     /\ gemini_disabled' = (gemini_disabled \/ r = "429")
                     /\ IF r = "200"
                        THEN \/ result' = backup
                             \/ \E n \in {0, MaxSegments} :
                                  result' = [returned |-> TRUE, chosen |-> 1, via |-> "gemini",
                                             segments |-> GeminiSegments(n)]
                        ELSE result' = backup
  /\ UNCHANGED << articles, api_key, bs4, attempt, waits >>
  /\ UNCHANGED << mainVars, overlayVars, sanVars, dedupVars, runsVars >>

\* pick_best_article(articles), lines 415-473, from the call to the return:
\* chosen is the place of the article returned, 0 for None
PickBestArticle ==
  /\ AdapterFree
  /\ op' = "pick_best_article"
  /\ script_pc' = "returned"
  /\ LET none == [returned |-> TRUE, chosen |-> 0, via |-> "none", segments |-> <<>>]
     IN IF articles = <<>> \/ Unavailable(gemini_disabled, api_key)
        THEN /\ result' = none
             /\ UNCHANGED << gemini_disabled, net_calls, last_response >>
        ELSE \/ /\ net_calls < MaxCalls
                /\ net_calls' = net_calls + 1
                /\ last_response' \in ListModelsFailures
                /\ result' = none
                /\ UNCHANGED gemini_disabled
             \/ /\ net_calls + 1 < MaxCalls
                /\ net_calls' = net_calls + 2
                /\ \E r \in {"200"} \cup FailedResponses :
                     /\ last_response' = Answer("generateContent", r)
                     /\ gemini_disabled' = (gemini_disabled \/ r = "429")
                     /\ IF r = "200"
                        THEN \E chosen_index \in {-1, 0, 1, 2} :
                               result' = IF 0 <= chosen_index /\ chosen_index < Len(articles)
                                         THEN [returned |-> TRUE, chosen |-> chosen_index + 1,
                                               via |-> "gemini", segments |-> <<>>]
                                         ELSE none
                        ELSE result' = none
  /\ UNCHANGED << articles, api_key, bs4, attempt, waits >>
  /\ UNCHANGED << mainVars, overlayVars, sanVars, dedupVars, runsVars >>

AdapterNext ==
  \/ CallPickAndGenerate
  \/ GenerateScript
  \/ PickBestArticle
  \/ NoArticles
  \/ BackupAtOnce
  \/ DiscoverModel
  \/ AttemptSucceeds
  \/ AttemptFails
  \/ RetriesExhausted

AdapterSpec == AdapterInit /\ [][AdapterNext]_vars

\* ------------------------------------ main.py, one run after the other

\* the entries the feeds carry over the runs: link and title; the second is
\* the story of the first under another link
FeedEntries ==
  << [article_id |-> <<"u1">>, title |-> <<"Markets", " ", "rally">>],
     [article_id |-> <<"u2">>, title |-> <<"Breaking", ":", " ", "Markets", " ", "rally">>],
     [article_id |-> <<"u3">>, title |-> <<"Rates", " ", "rise">>] >>

\* _load_processed_ids: set(line.strip() for line in f)
LoadProcessedIds(file) == { Strip(line) : line \in file }

\* fetch_fresh_news: of the entries the feeds carry today, in feed order, those
\* whose link is not in processed_ids (_fetch_rss_sources lines 253-255)
FreshNews(file) ==
  { SelectSeq(FeedEntries,
              LAMBDA e : e \in today /\ e.article_id \notin LoadProcessedIds(file)) :
      today \in SUBSET { FeedEntries[k] : k \in 1..Len(FeedEntries) } }

RunsInit ==
  /\ MainIdle
  /\ OverlayIdle
  /\ SanIdle
  /\ DedupIdle
  /\ ScriptIdle
  /\ RunsIdle

\* main lines 19-48: a run starts, fetches and hands its pool to
\* pick_and_generate_script; with nothing to process it returns there
StartRun ==
  /\ selection_pool = <<>>
  /\ run_no < MaxRuns
  /\ run_no' = run_no + 1
  /\ \E news \in FreshNews(processed_ids_file) :
       /\ selection_pool' = SelectionPool(news)
       /\ run_exit' = IF news = <<>> THEN 0 ELSE run_exit
  /\ UNCHANGED << processed_ids_file, produced, mainVars, overlayVars, sanVars, dedupVars, scriptVars >>

\* main lines 48-136: one article of the pool was chosen, its video assembled
\* and written, and the article marked (_save_processed_id)
RunProduces ==
  /\ selection_pool # <<>>
  /\ \E k \in 1..Len(selection_pool) :
       /\ produced' = produced \cup { selection_pool[k] }
       /\ processed_ids_file' =
            processed_ids_file \cup { SafeId(selection_pool[k].article_id) }
  /\ selection_pool' = <<>>
  /\ run_exit' = 0
  /\ UNCHANGED << run_no, mainVars, overlayVars, sanVars, dedupVars, scriptVars >>

\* the run ended without a video (main lines 111-113, 141-144, 146-153):
\* nothing is marked
RunFails ==
  /\ selection_pool # <<>>
  /\ selection_pool' = <<>>
  /\ run_exit' = 1
  /\ UNCHANGED << processed_ids_file, produced, run_no, mainVars, overlayVars, sanVars, dedupVars,
                  scriptVars >>

RunsNext == StartRun \/ RunProduces \/ RunFails

RunsSpec == RunsInit /\ [][RunsNext]_vars

\* ------------------------------------------------------------ claims

Abs(n) == IF n < 0 THEN -n ELSE n

\* the audio file of the k-th artifact
ArtifactAudio(k) == audio_files[final_segments[k].audio]

RECURSIVE ArtifactFrames(_)
\* the audio durations of the first k artifacts, added up
ArtifactFrames(k) == IF k = 0 THEN 0 ELSE ArtifactAudio(k).dur + ArtifactFrames(k - 1)

\* assemble_video has built its timeline
Concatenated == asm_stage \in {"encode", "done"}

\* the script segments whose audio and overlay calls both returned a path
Rendered == { i \in 1..nseg : audio_files[i] # NoFile /\ img_files[i] # -1 }

\* C1: after a successful assembly the video timeline lasts as long as the audio
\* of its segments, all of them added up, to within one frame.
C1_DurationIsAudioSum ==
  asm_stage = "done" =>
    Abs(final_video.duration - ArtifactFrames(Len(final_segments))) <= 1

\* C2: in the assembled output the k-th segment clip starts on the video timeline
\* where the k-th audio clip starts on the audio track, for every k.
C2_StartsInSync ==
  Concatenated =>
    \A k \in 1..Len(clips) :
      k <= Len(audio_clips) => final_video.starts[k] = final_audio.starts[k]

\* C3: the artifacts main collects are script segments in script order, each
\* with its own audio and overlay, and assemble_video builds its video clips and
\* its audio clips in that same order.
C3_OrderPreserved ==
  /\ \A k \in 1..Len(final_segments) :
       /\ final_segments[k].audio \in 1..nseg
       /\ final_segments[k].image = final_segments[k].audio
  /\ \A j, k \in 1..Len(final_segments) :
       j < k => final_segments[j].audio < final_segments[k].audio
  /\ Len(clips) <= Len(final_segments)
  /\ Len(audio_clips) <= Len(final_segments)
  /\ \A k \in 1..Len(clips) : clips[k].src = final_segments[k].image
  /\ \A k \in 1..Len(audio_clips) : audio_clips[k].src = final_segments[k].audio

\* a run of three segments whose middle one failed, assembled to the end
C3_Witness ==
  /\ asm_stage = "done"
  /\ nseg = 3
  /\ Len(final_segments) = 2
  /\ final_segments[1].audio = 1
  /\ final_segments[2].audio = 3
  /\ Len(clips) = 2
  /\ Len(audio_clips) = 2

\* C4: a segment that fails, by a falsy result or by an exception of the
\* overlay or ticker renderer, is skipped alone: a run that entered the loop has
\* gone through every segment of the script when it ends, and went on to the
\* assembly when a segment survived.
C4_FailedSegmentSkippedAlone ==
  (pc = "done" /\ nseg >= 1) =>
    /\ idx = nseg + 1
    /\ final_segments # <<>> => asm_stage # "idle"

C6_MarkedOnlyAfterAssembly ==
  [][processed_ids' # processed_ids =>
       /\ asm_stage = "done"
       /\ final_path # None
       /\ out_file = "complete"
       /\ processed_ids' = processed_ids \cup {SafeId(article)}
       /\ status' = "success"]_vars

\* the article was marked after a successful assembly
C6_Witness ==
  /\ pc = "done"
  /\ status = "success"
  /\ SafeId(article) \in processed_ids
  /\ out_file = "complete"

\* C7: once assemble_video has failed, no file is at the output path.
C7_NoPartialOutput == asm_stage = "failed" => out_file = "none"

\* C8: when assemble_video concatenates, it has built one video clip and one
\* audio clip for each artifact of the list, the list holds one artifact for
\* each script segment that rendered, and each clip lasts as long as the audio
\* of its artifact.
C8_ArtifactsConsumed ==
  Concatenated =>
    /\ Len(clips) = Len(final_segments)
    /\ Len(audio_clips) = Len(final_segments)
    /\ Len(final_segments) = Cardinality(Rendered)
    /\ \A k \in 1..Len(clips) :
         /\ clips[k].dur = ArtifactAudio(k).dur
         /\ audio_clips[k].dur = ArtifactAudio(k).dur

\* two of three segments rendered and both were concatenated
C8_Witness ==
  /\ Concatenated
  /\ nseg = 3
  /\ Cardinality(Rendered) = 2
  /\ Len(clips) = 2
  /\ Len(audio_clips) = 2
  /\ clips[1].dur # clips[2].dur

\* C9: every artifact in main's list has an audio file larger than the minimal
\* size and an overlay image that is not empty.
C9_ArtifactsNonTrivial ==
  \A k \in 1..Len(final_segments) :
    /\ ArtifactAudio(k).size > EdgeMinBytes
    /\ img_files[final_segments[k].image] > 0

\* C10: generate_audio sanitizes first and calls the engines afterwards, with
\* the sanitized text; when that text is empty it calls no engine and returns
\* None.
C10_SanitizedBeforeEngines ==
  tts.calls # <<>> =>
    /\ tts.calls[1] = "sanitize"
    /\ \A k \in 2..Len(tts.calls) : tts.calls[k] \in {"edge", "eleven", "gtts"}
    /\ tts.sent = SanitizeForTts(tts.input)
    /\ Strip(tts.sent) = <<>> => (Len(tts.calls) = 1 /\ tts.result = None)

\* a text that is not empty was sanitized to nothing and no engine was called
C10_Witness ==
  /\ tts.input # <<>>
  /\ tts.calls = <<"sanitize">>
  /\ tts.sent = <<>>
  /\ tts.result = None

\* the engines of the chain, in the order of generate_audio
EngineRank(e) == CASE e = "edge" -> 1 [] e = "eleven" -> 2 [] e = "gtts" -> 3 [] OTHER -> 0

\* the engines a call has tried, and whether it tried or saw fail the engine e
Tried(e) == \E k \in 2..Len(tts.calls) : tts.calls[k] = e

HasFailed(e) == \E k \in 1..Len(tts.failed) : tts.failed[k] = e

Applicable(e) == e # "eleven" \/ elevenlabs_api_key

\* C11: a generate_audio call that reaches the engines tries Edge first, the
\* paid engine only with a key, gTTS last; an engine is tried only after every
\* applicable engine before it handed back no file, none is tried twice, and
\* the call returns None exactly when every applicable engine handed back no
\* file.
C11_FallbackOrder ==
  Len(tts.calls) >= 2 =>
    /\ tts.calls[2] = "edge"
    /\ \A j, k \in 2..Len(tts.calls) :
         j < k => EngineRank(tts.calls[j]) < EngineRank(tts.calls[k])
    /\ Tried("eleven") => elevenlabs_api_key
    /\ \A k \in 2..Len(tts.calls) : \A e \in {"edge", "eleven", "gtts"} :
         (Applicable(e) /\ EngineRank(e) < EngineRank(tts.calls[k])) =>
           (Tried(e) /\ HasFailed(e))
    /\ \A e \in {"edge", "eleven", "gtts"} : HasFailed(e) => Tried(e)
    /\ tts.result = None <=>
         \A e \in {"edge", "eleven", "gtts"} : Applicable(e) => HasFailed(e)

\* with a key, all three engines were tried in order and the call returned None
C11_Witness ==
  /\ elevenlabs_api_key
  /\ tts.calls = <<"sanitize", "edge", "eleven", "gtts">>
  /\ tts.failed = <<"edge", "eleven", "gtts">>
  /\ tts.result = None

\* C12: a generate_audio call that returns a path leaves there a file larger
\* than the minimal size, whichever engine wrote it: an engine's file at or
\* below the threshold is never handed back as success.
C12_NoTrivialOutput ==
  (pc = "overlay" /\ tts.result # None) => audio_files[idx].size > EdgeMinBytes

\* an escaped tag, or the bracketed marker, among the characters of a text
HasEscapedTag(s) == \E k \in 1..Len(s) : s[k] \in {"&lt;", "&gt;", "&quot;"}

HasBracketPause(s) ==
  \E k \in 1..Len(s) : StartsWith(Drop(s, k - 1), <<"[", "pause", "]">>)

HasBreakTag(s) ==
  \E k \in 1..Len(s), ms \in {"250ms", "450ms"} :
    StartsWith(Drop(s, k - 1), Strip(BreakTag(ms)))

HasEllipsis(s) == \E k \in 1..Len(s) : s[k] = "..."

\* C14: when the spoken text carries a pause, what Edge is handed holds a
\* break tag or an ellipsis for it, and neither the bracketed marker nor an
\* escaped tag; what the other engines are handed holds no bracketed marker.
C14_PauseNotSpoken ==
  HasEllipsis(tts.input) =>
    /\ ~HasBracketPause(tts.sent)
    /\ Tried("edge") =>
         /\ HasBreakTag(tts.ssml) \/ HasEllipsis(tts.ssml)
         /\ ~HasBracketPause(tts.ssml)
         /\ ~HasEscapedTag(tts.ssml)

\* C13: sanitizing a text that _sanitize_for_tts returned gives the same text
\* back.
C13_SanitizeIdempotent == passes >= 2 => clean = prev_clean

\* the latest call was is_duplicate on an article with a title
AskedDuplicate == last_op.op = "is_duplicate" /\ last_op.title # <<>>

\* the latest call was is_duplicate(A), right after mark_processed(A)
AskedRightAfterMark == last_op.op = "is_duplicate" /\ last_op.marked = last_op.title

\* C15 as stated: for every article A, is_duplicate(A) right after
\* mark_processed(A) returns true.
C15_RoundTrip == AskedRightAfterMark => last_op.result

\* C15 amended: for every article A with a non-empty title, is_duplicate(A)
\* right after mark_processed(A) returns true.
C15_RoundTripTitled == (AskedRightAfterMark /\ last_op.title # <<>>) => last_op.result

\* an article whose title carries a prefix was marked and then found
C15_Witness ==
  /\ AskedRightAfterMark
  /\ last_op.title = <<"Breaking", ":", " ", "Markets", " ", "rally">>
  /\ last_op.result

\* C16 as stated: is_duplicate(A) returns true while the record of A's
\* fingerprint is no older than the retention window, and false once the
\* window has elapsed.
C16_ExpiresWhenElapsed ==
  (AskedDuplicate /\ GenerateHash(last_op.title) \in DOMAIN data) =>
    (last_op.result <=> last_op.at - data[GenerateHash(last_op.title)] <= TtlDays)

\* C16 amended: a manager holds no record that was older than the retention
\* window when it was constructed, it holds every record of the file that was
\* not, and is_duplicate(A) returns true exactly when the manager holds a
\* record of A's fingerprint (whatever the age the record has reached since).
C16_PurgedOnLoad ==
  /\ \A h \in DOMAIN data : loaded_at - data[h] <= TtlDays
  /\ \A h \in DOMAIN db_file : loaded_at - db_file[h] <= TtlDays => h \in DOMAIN data
  /\ AskedDuplicate => (last_op.result <=> GenerateHash(last_op.title) \in DOMAIN data)

\* a record too old at construction (still in the file, whose rewrite failed) is
\* not in the manager, and is_duplicate returned false
C16_Witness ==
  /\ AskedDuplicate
  /\ ~last_op.result
  /\ GenerateHash(last_op.title) \in DOMAIN db_file
  /\ loaded_at - db_file[GenerateHash(last_op.title)] > TtlDays

RECURSIVE WithoutKnownPrefixes(_)
\* a title without the known prefixes it starts with
WithoutKnownPrefixes(s) ==
  IF \E k \in 1..Len(DedupPrefixes) : StartsWith(s, DedupPrefixes[k])
  THEN LET k == CHOOSE j \in 1..Len(DedupPrefixes) : StartsWith(s, DedupPrefixes[j])
       IN WithoutKnownPrefixes(Strip(Drop(s, Len(DedupPrefixes[k]))))
  ELSE s

\* a title up to letter case, whitespace and known prefixes
NormalizedTitle(title) == WithoutKnownPrefixes(NormalizeSpaces(LowerTitle(title)))

\* C17: when is_duplicate(B) follows mark_processed(A) and the titles of A and
\* B are equal up to letter case, whitespace and known prefixes, the two get
\* the same fingerprint and is_duplicate(B) returns true.
C17_SameNormalizedTitleIsDuplicate ==
  (/\ AskedDuplicate
   /\ last_op.marked # NotMarked
   /\ last_op.marked # <<>>
   /\ NormalizedTitle(last_op.marked) = NormalizedTitle(last_op.title)) =>
    /\ GenerateHash(last_op.marked) = GenerateHash(last_op.title)
    /\ last_op.result

\* C19: when pick_and_generate_script returns a result, the script in it has
\* at least one segment.
C19_ResultHasSegments ==
  (script_pc = "returned" /\ result.returned) => Len(result.segments) >= 1

\* C20: the script of the backup template has between 1 and 5 segments, and
\* the visual text and the spoken text of each are not empty.
C20_BackupWellFormed ==
  (script_pc = "returned" /\ result.via = "backup") =>
    /\ Len(result.segments) \in 1..MaxBackupSegments
    /\ \A k \in 1..Len(result.segments) :
         /\ JoinLen(result.segments[k].visual) > 0
         /\ JoinLen(result.segments[k].script) > 0

\* C18: the pool a run hands to the script provider holds no article with the
\* id, or with the title fingerprint, of an article an earlier run produced a
\* video for.
C18_ProducedNeverSelectedAgain ==
  \A k \in 1..Len(selection_pool) : \A a \in produced :
    /\ selection_pool[k].article_id # a.article_id
    /\ GenerateHash(selection_pool[k].title) # GenerateHash(a.title)

\* the outcome of a run that has ended, among the four the status line tells
\* apart ("other": a run that rendered every segment, or that stopped while
\* rendering)
Outcome ==
  CASE status = "no new news" -> "no new articles"
    [] status = "no segments in script" -> "generation failed before rendering"
    [] status = "success" /\ Len(final_segments) < nseg -> "partial segment failures"
    [] status = "assembly failed" -> "video assembly failed"
    [] OTHER -> "other"

\* C21: the four outcomes end the process with four different exit codes:
\* "no new articles" ends with 0 and "video assembly failed" with 1, so a run
\* whose generation failed before rendering and a run that produced its video
\* with some segments skipped end with neither 0 nor 1.
C21_DistinctExitSignals ==
  pc = "done" =>
    /\ Outcome = "no new articles" => exit_code = 0
    /\ Outcome = "video assembly failed" => exit_code = 1
    /\ Outcome = "generation failed before rendering" => exit_code \notin {0, 1}
    /\ Outcome = "partial segment failures" => exit_code \notin {0, 1}

\* the steps assemble_video can take from one stage to the next
StageOrder ==
  { <<"idle", "compose">>, <<"compose", "encode">>, <<"compose", "failed">>,
    <<"encode", "done">>, <<"encode", "failed">> }

\* C22: every assemble_video call goes through its stages in the order collect
\* and compose, concatenate, encode, never back to an earlier one; it ends
\* either done, returning the output path, or failed, returning None, and
\* returns nothing before; a call with an empty list fails with no encoding
C22_StagesInOrder ==
  [][ /\ asm_stage' # asm_stage => <<asm_stage, asm_stage'>> \in StageOrder
      /\ asm_stage' = "done" => final_path' = "output_path" /\ out_file' = "complete"
      /\ asm_stage' # "done" => final_path' = None
      /\ asm_stage \in {"done", "failed"} => asm_stage' = asm_stage
      /\ final_segments = <<>> =>
           /\ asm_stage' \notin {"encode", "done"}
           /\ out_file' = "none" ]_asmVars

C22_Witness ==
  /\ final_segments = <<>>
  /\ asm_stage = "failed"
  /\ final_path = None
  /\ out_file = "none"

\* the entries of the list assemble_video makes a clip of, were they read
Sound(seg) ==
  /\ seg.image # 0
  /\ ImageReadable(img_files[seg.image])
  /\ AudioExists(seg.audio) => AudioReadable(audio_files[seg.audio])

C24_CropCentred ==
  \A k \in 1..Len(clips) :
    LET b == clips[k].bg_clip
        r == b.crop
    IN b.kind \in {"video", "static"} =>
         /\ r.x1 = r.w - r.x2
         /\ r.y1 = r.h - r.y2

\* C25: the first clip of the timeline does not fade in and every later one
\* does, starting before the clip ahead of it has ended, whatever entries of
\* the list were skipped
C25_CrossfadeAfterFirst ==
  /\ \A k \in 1..Len(clips) : clips[k].fade <=> k > 1
  /\ asm_stage \in {"encode", "done"} =>
       \A k \in 2..Len(clips) :
         final_video.starts[k] < final_video.starts[k - 1] + clips[k - 1].dur

\* C28: pick_and_generate_script makes at most 3 attempts, waits 10, 20 and
\* 40 seconds before them, returns at the first attempt that succeeds, returns
\* the backup script of the first article after the third failed one, and
\* returns in the end
C28_BackoffAndTerminates ==
  /\ [](/\ Len(waits) <= 3
        /\ \A k \in 1..Len(waits) : waits[k] = 10 * 2^(k - 1)
        /\ result.via = "gemini" =>
             /\ script_pc = "returned"
             /\ last_response.status = "200"
             /\ Len(waits) = attempt + 1
        /\ script_pc = "returned" /\ articles # <<>> /\ result.via # "gemini" =>
             /\ result.chosen = 1
             /\ result.via = "backup"
             /\ result.segments = BackupTemplate(articles[1], bs4)
        /\ script_pc = "retry" /\ Len(waits) = 3 => attempt = 3)
  /\ [][script_pc = "returned" => UNCHANGED << waits, net_calls, result >>]_vars
  /\ <>(script_pc = "returned")

C28_Witness ==
  /\ script_pc = "returned"
  /\ waits = << 10, 20, 40 >>
  /\ result.via = "backup"
  /\ last_response.status = "429"

\* C26: whenever an operation of the ScriptGenerator is answered 429, its
\* disabled flag is set
C26_RateLimitOpensBreaker ==
  last_response = [to |-> "generateContent", status |-> "429"] => gemini_disabled

\* C27: once set, the disabled flag stays set; while it is set no request is
\* made to the provider, and what a call returns is the backup script or None
C27_BreakerLatched ==
  [][ gemini_disabled =>
        /\ gemini_disabled'
        /\ net_calls' = net_calls
        /\ last_response' = last_response
        /\ waits' = waits \/ waits' = <<>>
        /\ script_pc' = "returned" => result'.via \in {"backup", "none"} ]_scriptVars

C27_Witness ==
  /\ gemini_disabled
  /\ op = "pick_and_generate_script"
  /\ script_pc = "returned"
  /\ result.via = "backup"
  /\ net_calls > 0

\* the characters of a text, blanks aside
Unspaced(s) == SelectSeq(s, LAMBDA c : c # " ")

\* the texts generate_overlay puts into the page
Interpolated ==
  [label |-> BuildLabel(overlay_text.headline),
   headline |-> OrDefault(overlay_text.headline, << "Top", " ", "Story" >>),
   summary |-> OrDefault(overlay_text.summary, << "Loading", ".", ".", "." >>)]

\* the element shows the characters of the text, and none of them was read as
\* markup
ShownAsText(nodes, s) ==
  /\ \A k \in 1..Len(nodes) : nodes[k].kind = "element" => nodes[k].origin = "template"
  /\ Unspaced(InnerText(nodes)) = Unspaced(s)

\* C29: from the loading of the page to the capture, the label, the headline
\* and the summary of the overlay show the characters of the texts handed
\* in, and no part of them is read as markup, also once the page script has
\* rewritten the headline and the summary
C29_TextNeverMarkup ==
  /\ overlay_pc \in {"loaded", "animated", "captured"} =>
       \A f \in {"label", "headline", "summary"} : ShownAsText(page[f], Interpolated[f])
  /\ overlay_pc = "captured" =>
       \A f \in {"label", "headline", "summary"} : ShownAsText(screenshot[f], Interpolated[f])

\* C30: the article chosen in a run is one of the pool handed to the script
\* provider; the run marks at most one article as processed, at its end, and
\* that article is the chosen one, whose script was rendered
C30_MarksChosenArticle ==
  [][ /\ article' # article => \E k \in 1..Len(news_items) : article' = news_items[k]
      /\ processed_ids' # processed_ids =>
           /\ pc # "done" /\ pc' = "done"
           /\ processed_ids' = processed_ids \cup {article}
           /\ \E k \in 1..Len(news_items) : article = news_items[k]
           /\ nseg > 0 /\ final_segments # <<>>
      /\ pc = "done" => UNCHANGED << processed_ids, article >> ]_vars

C30_Witness ==
  /\ pc = "done"
  /\ status = "success"
  /\ Len(news_items) = 2
  /\ article = news_items[2]
  /\ article \in processed_ids

====
